---- MODULE Spec2Model ----
(***************************************************************************)
(* ludivina: a Telegram bot that prints the texts and photos it receives   *)
(* on a thermal printer.  The model follows src/main.py handler by handler *)
(* (auth, ignore_old_updates, require_printer, the commands, the text and  *)
(* image handlers, error_handler) and src/utils.py (split_text).           *)
(*                                                                         *)
(* Strings are sequences of one-character strings.                         *)
(***************************************************************************)
EXTENDS Integers, Sequences, FiniteSets, TLC

\* ------------------------------------------------------------------ bounds
NumHandlers == 2     \* handler slots of the transport
MaxArgs == 2         \* longest argument list of /add and /remove
MaxTick == 1         \* seconds the clock advances during a behaviour
Now0 == 100000       \* the clock at startup, in seconds
max_column == 3      \* printer.max_column, the device's column capacity
MaxLen == 5          \* longest text given to split_text on its own
MaxLineLength == 3   \* largest max_line_length given to split_text on its own
MaxSide == 35        \* largest side, in pixels, of a bitmap given to beautify

\* ------------------------------------------------------- program constants
ADMIN_TELEGRAM_USER_ID == 1
HOURS_24 == 86400    \* timedelta(hours=24), in seconds
FEED_AMOUNT == 2     \* print_feed(amount = 2)
SECONDS_PER_DAY == 86400
MAX_WIDTH == 384     \* the printable width in pixels

H == 1..NumHandlers
Users == {ADMIN_TELEGRAM_USER_ID, 2, 3}

\* ------------------------------------------------------------- utilities
Min(a, b) == IF a <= b THEN a ELSE b

Last(s) == s[Len(s)]

RECURSIVE CountOp(_, _)
\* how many events of ops carry the operation op
CountOp(ops, op) ==
  IF ops = <<>> THEN 0
  ELSE (IF Head(ops).op = op THEN 1 ELSE 0) + CountOp(Tail(ops), op)

\* ------------------------------------------------------------ str and int
Digits == <<"0", "1", "2", "3", "4", "5", "6", "7", "8", "9">>

IsDigit(c) == \E d \in 1..10 : Digits[d] = c

DigitValue(c) == (CHOOSE d \in 1..10 : Digits[d] = c) - 1

RECURSIVE str(_)
\* str(n) of a non-negative integer: decimal, no leading zeros
str(n) == IF n < 10 THEN <<Digits[n + 1]>>
          ELSE str(n \div 10) \o <<Digits[(n % 10) + 1]>>

\* whether int(token) succeeds (no ValueError)
IsInt(token) == token # <<>> /\ \A j \in 1..Len(token) : IsDigit(token[j])

RECURSIVE int(_)
\* int(token) of a digit string: leading zeros are accepted
int(token) ==
  IF token = <<>> THEN 0
  ELSE 10 * int(SubSeq(token, 1, Len(token) - 1)) + DigitValue(Last(token))

\* --------------------------------------------------------------- split_text
IsSpace(c) == c \in {" ", "\t", "\n", "\r"}

RECURSIVE SplitFrom(_, _, _)
\* text.split(): the maximal runs of non-whitespace characters, in order
SplitFrom(text, word, words) ==
  IF text = <<>> THEN (IF word = <<>> THEN words ELSE Append(words, word))
  ELSE IF IsSpace(Head(text))
       THEN SplitFrom(Tail(text), <<>>,
                      IF word = <<>> THEN words ELSE Append(words, word))
       ELSE SplitFrom(Tail(text), Append(word, Head(text)), words)

split(text) == SplitFrom(text, <<>>, <<>>)

\* the loop body without the truncation of the word
PlaceWord_untruncated(lines, w, max_line_length) ==
  LET word == w
      last_line == Last(lines)
  IN  IF Len(last_line) + 1 + Len(word) <= max_line_length
      THEN [lines EXCEPT ![Len(lines)] =
              IF last_line # <<>> THEN last_line \o <<" ">> \o word ELSE word]
      ELSE Append(lines, word)

\* the loop body with a strict comparison
PlaceWord_strict(lines, w, max_line_length) ==
  LET word == SubSeq(w, 1, Min(Len(w), max_line_length))
      last_line == Last(lines)
  IN  IF Len(last_line) + 1 + Len(word) < max_line_length
      THEN [lines EXCEPT ![Len(lines)] =
              IF last_line # <<>> THEN last_line \o <<" ">> \o word ELSE word]
      ELSE Append(lines, word)

\* one iteration of the loop of split_text
PlaceWord(lines, w, max_line_length) ==
  LET word == SubSeq(w, 1, Min(Len(w), max_line_length))
      last_line == Last(lines)
  IN  IF Len(last_line) + 1 + Len(word) <= max_line_length
      THEN [lines EXCEPT ![Len(lines)] =
              IF last_line # <<>> THEN last_line \o <<" ">> \o word ELSE word]
      ELSE Append(lines, word)

RECURSIVE PlaceWords(_, _, _)
PlaceWords(lines, words, max_line_length) ==
  IF words = <<>> THEN lines
  ELSE PlaceWords(PlaceWord(lines, Head(words), max_line_length),
                  Tail(words), max_line_length)

RECURSIVE FilterNone(_)
\* filter(None, seq): drops the empty elements
FilterNone(seq) ==
  IF seq = <<>> THEN <<>>
  ELSE IF Head(seq) = <<>> THEN FilterNone(Tail(seq))
       ELSE <<Head(seq)>> \o FilterNone(Tail(seq))

split_text(text, max_line_length) ==
  FilterNone(PlaceWords(<< <<>> >>, FilterNone(split(text)), max_line_length))


\* ---------------------------------------------------- float (IEEE binary64)
\* A positive float is m * 2^e with 2^52 <= m < 2^53.  The significand is
\* kept in two 27-bit halves, m = hi * 2^27 + lo.
Half == 2 ^ 27

Wide(hi, lo) == [hi |-> hi, lo |-> lo]

WLess(a, b) == a.hi < b.hi \/ (a.hi = b.hi /\ a.lo < b.lo)

\* a - b, for a >= b
WSub(a, b) ==
  IF a.lo >= b.lo THEN Wide(a.hi - b.hi, a.lo - b.lo)
  ELSE Wide(a.hi - b.hi - 1, a.lo + Half - b.lo)

WDouble(a) == Wide(2 * a.hi + (2 * a.lo) \div Half, (2 * a.lo) % Half)

WSucc(a) == IF a.lo + 1 = Half THEN Wide(a.hi + 1, 0) ELSE Wide(a.hi, a.lo + 1)

RECURSIVE bit_length(_)
bit_length(n) == IF n = 0 THEN 0 ELSE 1 + bit_length(n \div 2)

\* float(n) of an integer 1 <= n < 2^26: exact
float(n) ==
  LET k == 26 - bit_length(n)
  IN  [m |-> Wide(n * 2 ^ k, 0), e |-> 0 - (k + 27)]

RECURSIVE LongDiv(_, _)
\* st.n more bits of the quotient of st.r by d, by shift and subtract;
\* st.r < d, st.q holds the bits found so far
LongDiv(st, d) ==
  IF st.n = 0 THEN st
  ELSE LET r2 == WDouble(st.r)
           q2 == WDouble(st.q)
       IN  LongDiv(IF WLess(r2, d)
                   THEN [q |-> q2, r |-> r2, n |-> st.n - 1]
                   ELSE [q |-> WSucc(q2), r |-> WSub(r2, d), n |-> st.n - 1],
                   d)

\* x / y of two floats: the 53-bit quotient, rounded to nearest, ties to even
float_div(x, y) ==
  LET ge == ~WLess(x.m, y.m)
      d == IF ge
           THEN LongDiv([q |-> Wide(0, 1), r |-> WSub(x.m, y.m), n |-> 52], y.m)
           ELSE LongDiv([q |-> Wide(0, 0), r |-> x.m, n |-> 53], y.m)
      e == x.e - y.e - (IF ge THEN 52 ELSE 53)
      twice == WDouble(d.r)
      up == WLess(y.m, twice) \/ (twice = y.m /\ d.q.lo % 2 = 1)
      m == IF up THEN WSucc(d.q) ELSE d.q
  IN  IF m.hi = 2 ^ 26 THEN [m |-> Wide(2 ^ 25, 0), e |-> e + 1]
      ELSE [m |-> m, e |-> e]

\* int(x) of a float 0 < x < 2^31: truncation toward zero
int_float(x) ==
  LET s == 0 - x.e
  IN  IF s >= 53 THEN 0
      ELSE IF s >= 27 THEN x.m.hi \div 2 ^ (s - 27)
      ELSE x.m.hi * 2 ^ (27 - s) + x.m.lo \div 2 ^ s

\* ----------------------------------------------------------------- beautify
\* image.rotate(90, expand=True): the canvas takes the swapped size
rotate(size) == <<size[2], size[1]>>

\* the size of the image beautify returns for a bitmap of the given size
beautify_size(size, width, height, max_width) ==
  LET is_landscape == width > height
      image == IF is_landscape THEN rotate(size) ELSE size
      scale == float_div(float(image[1]), float(max_width))
  IN  <<max_width, int_float(float_div(float(image[2]), scale))>>

\* ------------------------------------------------------------------ inputs
\* the argument tokens of /add and /remove: "1", "01", "2", "x"
Tokens == { <<"1">>, <<"0", "1">>, <<"2">>, <<"x">> }

RECURSIVE SeqsUpTo(_, _)
SeqsUpTo(S, n) ==
  IF n = 0 THEN { <<>> }
  ELSE LET shorter == SeqsUpTo(S, n - 1)
       IN  shorter \cup { Append(s, x) : s \in shorter, x \in S }

ArgLists == SeqsUpTo(Tokens, MaxArgs)

\* message texts: "ab c" (one line), "abcd e fg" (truncation, three lines), " "
Texts == { <<"a", "b", " ", "c">>,
           <<"a", "b", "c", "d", " ", " ", "e", "\n", "f", "g">>,
           <<" ">> }

\* photo captions: none, or "hi yo"
Captions == { <<>>, <<"h", "i", " ", "y", "o">> }

\* message dates: one second older than 24 h at startup, exactly 24 h, younger
Dates == { Now0 - HOURS_24 - 1, Now0 - HOURS_24, Now0 - HOURS_24 + 1 }

NoUpdate ==
  [kind |-> "none", user |-> 0, date |-> 0, text |-> <<>>, caption |-> <<>>,
   photo |-> "none", args |-> <<>>]

TextUpdates ==
  { [NoUpdate EXCEPT !.kind = "text", !.user = u, !.date = d, !.text = t] :
      u \in Users, d \in Dates, t \in Texts }

ImageUpdates ==
  { [NoUpdate EXCEPT !.kind = "image", !.user = u, !.date = d, !.caption = c,
                     !.photo = p] :
      u \in Users, d \in Dates, c \in Captions, p \in {"ok", "corrupt"} }

CommandUpdates ==
  { [NoUpdate EXCEPT !.kind = k, !.user = u, !.date = Now0, !.args = a] :
      k \in {"add", "remove"}, u \in Users, a \in ArgLists }
  \cup
  { [NoUpdate EXCEPT !.kind = k, !.user = u, !.date = Now0] :
      k \in {"exec", "start"}, u \in Users }

Updates == TextUpdates \cup ImageUpdates \cup CommandUpdates

first_name(u) == <<"u">> \o str(u)

\* ------------------------------------------------------------------- state
VARIABLES
  ALLOWED_TELEGRAM_USER_IDS,  \* the authorized identities, in memory
  CONFIG_FILE,                \* the pickled set in ludivina.conf
  device_found,               \* Path(PRINTER_DEVICE).exists()
  paper,                      \* the paper flag the device reports
  now,                        \* datetime.now(), in seconds
  sessions,                   \* open ThermalPrinter connections
  hs,                         \* per handler slot: the update and its progress
  call                        \* a call of split_text or beautify on its own

vars == <<ALLOWED_TELEGRAM_USER_IDS, CONFIG_FILE, device_found, paper, now,
          sessions, hs, call>>

\* no function is being called on its own
NoCall ==
  [fn |-> "none", pc |-> "none", text |-> <<>>, max_line_length |-> 0,
   lines |-> <<>>, size |-> <<0, 0>>, width |-> 0, height |-> 0,
   max_width |-> 0, out |-> <<0, 0>>]

IdleHandler ==
  [pc |-> "idle", update |-> NoUpdate, replies |-> <<>>, admin_msgs |-> <<>>,
   ops |-> <<>>, printer |-> "Closed", error |-> "none", k |-> 0, i |-> 0]

\* read_config: the default on first launch, else what an earlier run wrote
Init ==
  /\ ALLOWED_TELEGRAM_USER_IDS \in
       { S \in SUBSET {ADMIN_TELEGRAM_USER_ID, 2} : ADMIN_TELEGRAM_USER_ID \in S }
  /\ CONFIG_FILE = ALLOWED_TELEGRAM_USER_IDS
  /\ device_found \in BOOLEAN
  /\ paper \in BOOLEAN
  /\ now = Now0
  /\ sessions = 0
  /\ hs = [h \in H |-> IdleHandler]
  /\ call = NoCall

\* ------------------------------------------------------------ environment
Plug == /\ device_found' = ~device_found
        /\ UNCHANGED <<ALLOWED_TELEGRAM_USER_IDS, CONFIG_FILE, paper, now,
                       sessions, hs, call>>

Paper == /\ paper' = ~paper
         /\ UNCHANGED <<ALLOWED_TELEGRAM_USER_IDS, CONFIG_FILE, device_found,
                        now, sessions, hs, call>>

Tick == /\ now < Now0 + MaxTick
        /\ now' = now + 1
        /\ UNCHANGED <<ALLOWED_TELEGRAM_USER_IDS, CONFIG_FILE, device_found,
                       paper, sessions, hs, call>>

\* ---------------------------------------------------------------- dispatch
AdminKinds == {"exec", "add", "remove"}   \* @auth(admin=True)
PrintKinds == {"text", "image"}           \* @auth() @ignore_old_updates
AuthKinds == AdminKinds \cup PrintKinds

Entry(update) == IF update.kind \in AuthKinds THEN "auth" ELSE "cmd"

\* the dispatcher hands the update to the handler registered for it
Start(h, update) ==
  /\ hs[h].pc = "idle"
  /\ hs' = [hs EXCEPT ![h] = [IdleHandler EXCEPT !.pc = Entry(update),
                                                 !.update = update]]
  /\ UNCHANGED <<ALLOWED_TELEGRAM_USER_IDS, CONFIG_FILE, device_found, paper,
                 now, sessions, call>>

\* Updater.start_polling: one update at a time, each handled to its end
Dispatch ==
  /\ \A g \in H : hs[g].pc = "idle"
  /\ \E update \in Updates : Start(1, update)

\* the transport returns from the handler
Return(h) ==
  /\ hs[h].pc = "done"
  /\ hs' = [hs EXCEPT ![h] = IdleHandler]
  /\ UNCHANGED <<ALLOWED_TELEGRAM_USER_IDS, CONFIG_FILE, device_found, paper,
                 now, sessions, call>>

\* -------------------------------------------------------------------- auth
Unauthorized(u) ==
  [kind |-> "unauthorized", id |-> u, name |-> first_name(u)]


\* auth that denies an unregistered user without telling the admin
auth_no_notify(h) ==
  LET me == hs[h]
      user == me.update.user
      admin == me.update.kind \in AdminKinds
      is_admin == user = ADMIN_TELEGRAM_USER_ID
      is_allowed == user \in ALLOWED_TELEGRAM_USER_IDS
  IN  /\ me.pc = "auth"
      /\ hs' = [hs EXCEPT ![h] =
           IF admin /\ ~is_admin
           THEN [me EXCEPT !.replies = Append(@, "no tienes permisos de administracion"),
                           !.pc = "done"]
           ELSE IF ~is_allowed
           THEN [me EXCEPT !.replies = Append(@, "todavia no tienes permiso"),
                           !.pc = "done"]
           ELSE [me EXCEPT !.replies = Append(@, "Recibido"),
                           !.pc = IF admin THEN "cmd" ELSE "fresh"]]
      /\ UNCHANGED <<ALLOWED_TELEGRAM_USER_IDS, CONFIG_FILE, device_found,
                     paper, now, sessions, call>>


\* auth that takes any registered identity for the admin
auth_admin_by_registry(h) ==
  LET me == hs[h]
      user == me.update.user
      admin == me.update.kind \in AdminKinds
      is_admin == user \in ALLOWED_TELEGRAM_USER_IDS
      is_allowed == user \in ALLOWED_TELEGRAM_USER_IDS
  IN  /\ me.pc = "auth"
      /\ hs' = [hs EXCEPT ![h] =
           IF admin /\ ~is_admin
           THEN [me EXCEPT !.replies = Append(@, "no tienes permisos de administracion"),
                           !.pc = "done"]
           ELSE IF ~is_allowed
           THEN [me EXCEPT !.replies = Append(@, "todavia no tienes permiso"),
                           !.admin_msgs = Append(@, Unauthorized(user)),
                           !.pc = "done"]
           ELSE [me EXCEPT !.replies = Append(@, "Recibido"),
                           !.pc = IF admin THEN "cmd" ELSE "fresh"]]
      /\ UNCHANGED <<ALLOWED_TELEGRAM_USER_IDS, CONFIG_FILE, device_found,
                     paper, now, sessions, call>>

\* auth that sends the completion acknowledgement before it calls func
auth_ack_early(h) ==
  LET me == hs[h]
      user == me.update.user
      admin == me.update.kind \in AdminKinds
      is_admin == user = ADMIN_TELEGRAM_USER_ID
      is_allowed == user \in ALLOWED_TELEGRAM_USER_IDS
  IN  /\ me.pc = "auth"
      /\ hs' = [hs EXCEPT ![h] =
           IF admin /\ ~is_admin
           THEN [me EXCEPT !.replies = Append(@, "no tienes permisos de administracion"),
                           !.pc = "done"]
           ELSE IF ~is_allowed
           THEN [me EXCEPT !.replies = Append(@, "todavia no tienes permiso"),
                           !.admin_msgs = Append(@, Unauthorized(user)),
                           !.pc = "done"]
           ELSE [me EXCEPT !.replies = @ \o <<"Recibido", "OK">>,
                           !.pc = IF admin THEN "cmd" ELSE "fresh"]]
      /\ UNCHANGED <<ALLOWED_TELEGRAM_USER_IDS, CONFIG_FILE, device_found,
                     paper, now, sessions, call>>

auth(h) ==
  LET me == hs[h]
      user == me.update.user
      admin == me.update.kind \in AdminKinds
      is_admin == user = ADMIN_TELEGRAM_USER_ID
      is_allowed == user \in ALLOWED_TELEGRAM_USER_IDS
  IN  /\ me.pc = "auth"
      /\ hs' = [hs EXCEPT ![h] =
           IF admin /\ ~is_admin
           THEN [me EXCEPT !.replies = Append(@, "no tienes permisos de administracion"),
                           !.pc = "done"]
           ELSE IF ~is_allowed
           THEN [me EXCEPT !.replies = Append(@, "todavia no tienes permiso"),
                           !.admin_msgs = Append(@, Unauthorized(user)),
                           !.pc = "done"]
           ELSE [me EXCEPT !.replies = Append(@, "Recibido"),
                           !.pc = IF admin THEN "cmd" ELSE "fresh"]]
      /\ UNCHANGED <<ALLOWED_TELEGRAM_USER_IDS, CONFIG_FILE, device_found,
                     paper, now, sessions, call>>

\* auth.wrapper, after func returned: the completion acknowledgement
Ack(h) ==
  /\ hs[h].pc = "ack"
  /\ hs' = [hs EXCEPT ![h].replies = Append(@, "OK"), ![h].pc = "done"]
  /\ UNCHANGED <<ALLOWED_TELEGRAM_USER_IDS, CONFIG_FILE, device_found, paper,
                 now, sessions, call>>

\* ------------------------------------------------------ ignore_old_updates
is_old(date, clock) == date < clock - HOURS_24


\* ignore_old_updates that calls func whatever the date
ignore_old_updates_never(h) ==
  LET me == hs[h]
  IN  /\ me.pc = "fresh"
      /\ hs' = [hs EXCEPT ![h].pc =
                  IF me.update.kind = "image" THEN "beautify" ELSE "rp_check",
                          ![h].k = 1]
      /\ UNCHANGED <<ALLOWED_TELEGRAM_USER_IDS, CONFIG_FILE, device_found,
                     paper, now, sessions, call>>

ignore_old_updates(h) ==
  LET me == hs[h]
  IN  /\ me.pc = "fresh"
      /\ hs' = [hs EXCEPT ![h].pc =
           IF is_old(me.update.date, now) THEN "ack"
           ELSE IF me.update.kind = "image" THEN "beautify"
           ELSE "rp_check",
                          ![h].k = IF is_old(me.update.date, now) THEN 0 ELSE 1]
      /\ UNCHANGED <<ALLOWED_TELEGRAM_USER_IDS, CONFIG_FILE, device_found,
                     paper, now, sessions, call>>

\* ---------------------------------------------------------------- commands
command_start(h) ==
  /\ hs[h].pc = "cmd"
  /\ hs[h].update.kind = "start"
  /\ hs' = [hs EXCEPT ![h].replies = Append(@, "Hola"), ![h].pc = "done"]
  /\ UNCHANGED <<ALLOWED_TELEGRAM_USER_IDS, CONFIG_FILE, device_found, paper,
                 now, sessions, call>>

\* what subprocess.run can end in, as the replies command_exec sends
ExecReplies ==
  { <<"return code">>, <<"return code", "stdout">>, <<"return code", "stderr">>,
    <<"return code", "stdout", "stderr">>, <<"Error">> }

command_exec(h) ==
  /\ hs[h].pc = "cmd"
  /\ hs[h].update.kind = "exec"
  /\ \E r \in ExecReplies :
       hs' = [hs EXCEPT ![h].replies = @ \o r, ![h].pc = "ack"]
  /\ UNCHANGED <<ALLOWED_TELEGRAM_USER_IDS, CONFIG_FILE, device_found, paper,
                 now, sessions, call>>

RECURSIVE MapInt(_)
\* the values map(int, args) yields before it raises or ends
MapInt(args) ==
  IF args = <<>> \/ ~IsInt(Head(args)) THEN {}
  ELSE {int(Head(args))} \cup MapInt(Tail(args))

\* whether iterating map(int, args) raises ValueError
Raises(args) == \E j \in 1..Len(args) : ~IsInt(args[j])

\* write_config: the file is rewritten with the whole set
write_config(config) == config

command_add(h) ==
  LET me == hs[h]
      args == me.update.args
      updated == ALLOWED_TELEGRAM_USER_IDS \cup MapInt(args)
  IN  /\ me.pc = "cmd"
      /\ me.update.kind = "add"
      /\ ALLOWED_TELEGRAM_USER_IDS' = updated
      /\ IF Raises(args)
         THEN /\ CONFIG_FILE' = CONFIG_FILE
              /\ hs' = [hs EXCEPT ![h].error = "Unhandled",
                                  ![h].pc = "error_handler"]
         ELSE /\ CONFIG_FILE' = write_config(updated)
              /\ hs' = [hs EXCEPT ![h].replies = Append(@, "Authorized users"),
                                  ![h].pc = "ack"]
      /\ UNCHANGED <<device_found, paper, now, sessions, call>>

\* str(ADMIN_TELEGRAM_USER_ID) in context.args
NamesAdmin(args) ==
  \E j \in 1..Len(args) : args[j] = str(ADMIN_TELEGRAM_USER_ID)

command_remove(h) ==
  LET me == hs[h]
      args == me.update.args
      updated == ALLOWED_TELEGRAM_USER_IDS \ MapInt(args)
  IN  /\ me.pc = "cmd"
      /\ me.update.kind = "remove"
      /\ IF NamesAdmin(args)
         THEN /\ UNCHANGED <<ALLOWED_TELEGRAM_USER_IDS, CONFIG_FILE>>
              /\ hs' = [hs EXCEPT
                   ![h].replies = Append(@, "Not able to deauthorize admin user"),
                   ![h].pc = "ack"]
         ELSE /\ ALLOWED_TELEGRAM_USER_IDS' = updated
              /\ IF Raises(args)
                 THEN /\ CONFIG_FILE' = CONFIG_FILE
                      /\ hs' = [hs EXCEPT ![h].error = "Unhandled",
                                          ![h].pc = "error_handler"]
                 ELSE /\ CONFIG_FILE' = write_config(updated)
                      /\ hs' = [hs EXCEPT
                           ![h].replies = Append(@, "Authorized users"),
                           ![h].pc = "ack"]
      /\ UNCHANGED <<device_found, paper, now, sessions, call>>

\* ----------------------------------------------------------- device events
Ev(op) ==
  [op |-> op, text |-> <<>>, bold |-> FALSE, author |-> <<>>, day |-> 0, n |-> 0]

\* the calls that put something on paper
OutputOps == {"out", "image", "feed"}

\* ------------------------------------------------------------ the print jobs
\* Each job is the sequence of device calls its body makes.
print_message(text) ==
  LET lines == split_text(text, max_column)
  IN  [j \in 1..Len(lines) |-> [Ev("out") EXCEPT !.text = lines[j], !.bold = TRUE]]

\* timestamp.strftime("%d/%m/%Y") keeps the day of the timestamp
human_date(timestamp) == timestamp \div SECONDS_PER_DAY

print_signature(author, timestamp) ==
  << [Ev("out") EXCEPT !.author = author, !.day = human_date(timestamp)] >>

print_feed(amount) == << [Ev("feed") EXCEPT !.n = amount] >>

print_image == << Ev("image") >>


\* text_handler with the feed before the signature
text_handler_feed_first(update) ==
  << print_message(update.text),
     print_feed(FEED_AMOUNT),
     print_signature(first_name(update.user), update.date) >>

\* the bodies of the two handlers: the print calls they make, in order
text_handler(update) ==
  << print_message(update.text),
     print_signature(first_name(update.user), update.date),
     print_feed(FEED_AMOUNT) >>


\* image_handler that prints the caption without testing it
image_handler_always_caption(update) ==
  << print_image, print_message(update.caption),
     print_signature(first_name(update.user), update.date),
     print_feed(FEED_AMOUNT) >>

image_handler(update) ==
  << print_image >>
  \o (IF update.caption # <<>> THEN << print_message(update.caption) >> ELSE <<>>)
  \o << print_signature(first_name(update.user), update.date),
        print_feed(FEED_AMOUNT) >>

Body(update) ==
  IF update.kind = "text" THEN text_handler(update) ELSE image_handler(update)

\* the job the handler of slot h is in; k counts the print calls begun, and
\* is one more than their number once the body has returned
Job(h) == Body(hs[h].update)[hs[h].k]

\* image_handler up to beautify: a photo that does not decode raises
beautify(h) ==
  /\ hs[h].pc = "beautify"
  /\ hs' = [hs EXCEPT ![h] =
       IF @.update.photo = "ok" THEN [@ EXCEPT !.pc = "rp_check"]
       ELSE [@ EXCEPT !.error = "Unhandled", !.pc = "error_handler"]]
  /\ UNCHANGED <<ALLOWED_TELEGRAM_USER_IDS, CONFIG_FILE, device_found, paper,
                 now, sessions, call>>

\* --------------------------------------------------------- require_printer
printer_installed == device_found

\* a device call made while the serial device is gone raises
Raise(me, error) == [me EXCEPT !.error = error, !.pc = "rp_unwind"]


\* require_printer that opens the connection before it looks for the device
rp_check_late(h) ==
  /\ hs[h].pc = "rp_check"
  /\ hs' = [hs EXCEPT ![h] =
       IF ~printer_installed
       THEN [@ EXCEPT !.printer = "Open", !.ops = Append(@, Ev("open")),
                      !.error = "NoPrinterFound", !.pc = "error_handler"]
       ELSE [@ EXCEPT !.printer = "Open", !.ops = Append(@, Ev("open")),
                      !.pc = "rp_online"]]
  /\ sessions' = sessions + 1
  /\ UNCHANGED <<ALLOWED_TELEGRAM_USER_IDS, CONFIG_FILE, device_found, paper,
                 now, call>>

rp_check(h) ==
  /\ hs[h].pc = "rp_check"
  /\ hs' = [hs EXCEPT ![h] =
       IF ~printer_installed
       THEN [@ EXCEPT !.error = "NoPrinterFound", !.pc = "error_handler"]
       ELSE [@ EXCEPT !.pc = "rp_open"]]
  /\ UNCHANGED <<ALLOWED_TELEGRAM_USER_IDS, CONFIG_FILE, device_found, paper,
                 now, sessions, call>>

\* with ThermalPrinter(**PRINTER_SETTINGS) as printer
rp_open(h) ==
  /\ hs[h].pc = "rp_open"
  /\ IF device_found
     THEN /\ hs' = [hs EXCEPT ![h].printer = "Open",
                              ![h].ops = Append(@, Ev("open")),
                              ![h].pc = "rp_online"]
          /\ sessions' = sessions + 1
     ELSE /\ hs' = [hs EXCEPT ![h].error = "Unhandled",
                              ![h].pc = "error_handler"]
          /\ sessions' = sessions
  /\ UNCHANGED <<ALLOWED_TELEGRAM_USER_IDS, CONFIG_FILE, device_found, paper,
                 now, call>>

rp_online(h) ==
  /\ hs[h].pc = "rp_online"
  /\ hs' = [hs EXCEPT ![h] =
       IF device_found
       THEN [@ EXCEPT !.printer = "Online", !.ops = Append(@, Ev("online")),
                      !.pc = "rp_status"]
       ELSE Raise(@, "Unhandled")]
  /\ UNCHANGED <<ALLOWED_TELEGRAM_USER_IDS, CONFIG_FILE, device_found, paper,
                 now, sessions, call>>


\* require_printer that asks for the status and runs the job whatever it says
rp_status_unchecked(h) ==
  LET me == hs[h]
      has_paper == paper
      asked == [me EXCEPT
                  !.ops = Append(@, [Ev("status") EXCEPT !.n = IF has_paper THEN 1 ELSE 0])]
  IN  /\ me.pc = "rp_status"
      /\ hs' = [hs EXCEPT ![h] =
           IF ~device_found THEN Raise(me, "Unhandled")
           ELSE [asked EXCEPT !.i = 1,
                              !.pc = IF Job(h) = <<>> THEN "rp_offline" ELSE "rp_job"]]
      /\ UNCHANGED <<ALLOWED_TELEGRAM_USER_IDS, CONFIG_FILE, device_found,
                     paper, now, sessions, call>>

rp_status(h) ==
  LET me == hs[h]
      has_paper == paper
      asked == [me EXCEPT
                  !.ops = Append(@, [Ev("status") EXCEPT !.n = IF has_paper THEN 1 ELSE 0])]
  IN  /\ me.pc = "rp_status"
      /\ hs' = [hs EXCEPT ![h] =
           IF ~device_found THEN Raise(me, "Unhandled")
           ELSE IF ~has_paper THEN Raise(asked, "NoPaperLeft")
           ELSE [asked EXCEPT !.i = 1,
                              !.pc = IF Job(h) = <<>> THEN "rp_offline" ELSE "rp_job"]]
      /\ UNCHANGED <<ALLOWED_TELEGRAM_USER_IDS, CONFIG_FILE, device_found,
                     paper, now, sessions, call>>

\* ret = func(printer, ...): one device call of the job body
rp_job(h) ==
  LET me == hs[h]
  IN  /\ me.pc = "rp_job"
      /\ hs' = [hs EXCEPT ![h] =
           IF device_found
           THEN [me EXCEPT !.ops = Append(@, Job(h)[me.i]),
                           !.i = @ + 1,
                           !.pc = IF me.i = Len(Job(h)) THEN "rp_offline" ELSE "rp_job"]
           ELSE Raise(me, "Unhandled")]
      /\ UNCHANGED <<ALLOWED_TELEGRAM_USER_IDS, CONFIG_FILE, device_found,
                     paper, now, sessions, call>>

rp_offline(h) ==
  /\ hs[h].pc = "rp_offline"
  /\ hs' = [hs EXCEPT ![h] =
       IF device_found
       THEN [@ EXCEPT !.printer = "Offline", !.ops = Append(@, Ev("offline")),
                      !.pc = "rp_close"]
       ELSE Raise(@, "Unhandled")]
  /\ UNCHANGED <<ALLOWED_TELEGRAM_USER_IDS, CONFIG_FILE, device_found, paper,
                 now, sessions, call>>


\* require_printer without the with statement: returns with the connection open
rp_close_keep(h) ==
  LET me == hs[h]
      last == me.k = Len(Body(me.update))
  IN  /\ me.pc = "rp_close"
      /\ hs' = [hs EXCEPT ![h] =
           [me EXCEPT !.i = 0, !.k = @ + 1,
                      !.pc = IF last THEN "ack" ELSE "rp_check"]]
      /\ UNCHANGED <<ALLOWED_TELEGRAM_USER_IDS, CONFIG_FILE, device_found,
                     paper, now, sessions, call>>

\* the with block ends normally: the connection is closed, the wrapper returns
\* and the handler goes on to its next print call
rp_close(h) ==
  LET me == hs[h]
      last == me.k = Len(Body(me.update))
  IN  /\ me.pc = "rp_close"
      /\ hs' = [hs EXCEPT ![h] =
           [me EXCEPT !.printer = "Closed", !.ops = Append(@, Ev("close")),
                      !.i = 0,
                      !.k = @ + 1,
                      !.pc = IF last THEN "ack" ELSE "rp_check"]]
      /\ sessions' = sessions - 1
      /\ UNCHANGED <<ALLOWED_TELEGRAM_USER_IDS, CONFIG_FILE, device_found,
                     paper, now, call>>


\* an exception that leaves the block without closing the connection
rp_unwind_leak(h) ==
  /\ hs[h].pc = "rp_unwind"
  /\ hs' = [hs EXCEPT ![h].pc = "error_handler"]
  /\ UNCHANGED <<ALLOWED_TELEGRAM_USER_IDS, CONFIG_FILE, device_found, paper,
                 now, sessions, call>>

\* the with block ends by an exception: the connection is closed and the
\* exception goes on to the dispatcher's error handler
rp_unwind(h) ==
  /\ hs[h].pc = "rp_unwind"
  /\ hs' = [hs EXCEPT ![h].printer = "Closed",
                      ![h].ops = Append(@, Ev("close")),
                      ![h].pc = "error_handler"]
  /\ sessions' = sessions - 1
  /\ UNCHANGED <<ALLOWED_TELEGRAM_USER_IDS, CONFIG_FILE, device_found, paper,
                 now, call>>

\* ------------------------------------------------------------ error_handler
Exception(u) == [kind |-> "exception", id |-> u, name |-> first_name(u)]


\* error_handler that returns after the reply when the paper is out
error_handler_quiet(h) ==
  LET me == hs[h]
  IN  /\ me.pc = "error_handler"
      /\ hs' = [hs EXCEPT ![h] =
           IF me.error = "NoPaperLeft"
           THEN [me EXCEPT !.replies = Append(@, "No queda papel"), !.pc = "done"]
           ELSE [me EXCEPT !.replies = Append(@, "Algo no ha ido bien"),
                           !.admin_msgs = Append(@, Exception(me.update.user)),
                           !.pc = "done"]]
      /\ UNCHANGED <<ALLOWED_TELEGRAM_USER_IDS, CONFIG_FILE, device_found,
                     paper, now, sessions, call>>

error_handler(h) ==
  LET me == hs[h]
  IN  /\ me.pc = "error_handler"
      /\ hs' = [hs EXCEPT ![h] =
           [me EXCEPT !.replies = Append(@, IF me.error = "NoPaperLeft"
                                            THEN "No queda papel"
                                            ELSE "Algo no ha ido bien"),
                      !.admin_msgs = Append(@, Exception(me.update.user)),
                      !.pc = "done"]]
      /\ UNCHANGED <<ALLOWED_TELEGRAM_USER_IDS, CONFIG_FILE, device_found,
                     paper, now, sessions, call>>

\* ------------------------------------------------------------ specification
Printing(h) ==
  \/ ignore_old_updates(h)
  \/ beautify(h)
  \/ rp_check(h)
  \/ rp_open(h)
  \/ rp_online(h)
  \/ rp_status(h)
  \/ rp_job(h)
  \/ rp_offline(h)
  \/ rp_close(h)
  \/ rp_unwind(h)
  \/ error_handler(h)

Commands(h) ==
  \/ command_start(h)
  \/ command_exec(h)
  \/ command_add(h)
  \/ command_remove(h)

Next ==
  \/ Dispatch
  \/ \E h \in H : auth(h) \/ Ack(h) \/ Return(h) \/ Printing(h) \/ Commands(h)
  \/ Plug
  \/ Paper
  \/ Tick

Spec == Init /\ [][Next]_vars

\* The same handlers under a transport that runs them concurrently (handlers
\* registered with run_async): text messages of an authorized user, while the
\* paper may run out and be reloaded.
ConcUpdates ==
  { u \in TextUpdates :
      /\ u.user = ADMIN_TELEGRAM_USER_ID
      /\ u.date = Now0 - HOURS_24 + 1
      /\ u.text = <<"a", "b", " ", "c">> }

DispatchConc == \E h \in H : \E update \in ConcUpdates : Start(h, update)

TextPrinting(h) ==
  \/ ignore_old_updates(h)
  \/ rp_check(h)
  \/ rp_open(h)
  \/ rp_online(h)
  \/ rp_status(h)
  \/ rp_job(h)
  \/ rp_offline(h)
  \/ rp_close(h)
  \/ rp_unwind(h)
  \/ error_handler(h)

NextConc ==
  \/ DispatchConc
  \/ \E h \in H : auth(h) \/ Ack(h) \/ Return(h) \/ TextPrinting(h)
  \/ Paper

SpecConc == Init /\ [][NextConc]_vars


\* ------------------------------------------- split_text and beautify alone
\* the texts split_text is called with: the strings over a, b, space and
\* line break of at most MaxLen characters
Alphabet == {"a", "b", " ", "\n"}

TextCalls ==
  { [NoCall EXCEPT !.fn = "split_text", !.pc = "called", !.text = t,
                   !.max_line_length = n] :
      t \in SeqsUpTo(Alphabet, MaxLen), n \in 1..MaxLineLength }

\* the bitmaps beautify is called with, the declared width and height being
\* those of the bitmap or those of the bitmap lying on its side
ImageCalls ==
  { [NoCall EXCEPT !.fn = "beautify", !.pc = "called", !.size = s,
                   !.width = IF side THEN s[2] ELSE s[1],
                   !.height = IF side THEN s[1] ELSE s[2],
                   !.max_width = MAX_WIDTH] :
      s \in (1..MaxSide) \X (1..MaxSide), side \in BOOLEAN }

InitPure ==
  /\ ALLOWED_TELEGRAM_USER_IDS = {ADMIN_TELEGRAM_USER_ID}
  /\ CONFIG_FILE = ALLOWED_TELEGRAM_USER_IDS
  /\ device_found = TRUE
  /\ paper = TRUE
  /\ now = Now0
  /\ sessions = 0
  /\ hs = [h \in H |-> IdleHandler]
  /\ call \in TextCalls \cup ImageCalls

call_split_text ==
  /\ call.fn = "split_text"
  /\ call.pc = "called"
  /\ call' = [call EXCEPT !.lines = split_text(call.text, call.max_line_length),
                          !.pc = "returned"]
  /\ UNCHANGED <<ALLOWED_TELEGRAM_USER_IDS, CONFIG_FILE, device_found, paper,
                 now, sessions, hs>>

call_beautify ==
  /\ call.fn = "beautify"
  /\ call.pc = "called"
  /\ call' = [call EXCEPT
                !.out = beautify_size(call.size, call.width, call.height,
                                      call.max_width),
                !.pc = "returned"]
  /\ UNCHANGED <<ALLOWED_TELEGRAM_USER_IDS, CONFIG_FILE, device_found, paper,
                 now, sessions, hs>>

NextPure ==
  \/ call_split_text
  \/ call_beautify

SpecPure == InitPure /\ [][NextPure]_vars

\* ------------------------------------------------------------------ claims
InFlight == { h \in H : hs[h].pc # "idle" }

\* the handler is inside the with block of require_printer
InWith(h) ==
  hs[h].pc \in {"rp_online", "rp_status", "rp_job", "rp_offline", "rp_close",
                "rp_unwind"}

Completed(h) ==
  /\ hs[h].pc \in {"ack", "done"}
  /\ hs[h].error = "none"
  /\ hs[h].k > 0

\* C2: no printer session is left open: outside the with block a handler
\* holds no connection and has closed every connection it opened, whatever
\* the way out was (the job returned, NoPaperLeft, a failing device call).
C2_NoSessionLeftOpen ==
  /\ \A h \in H : ~InWith(h) =>
       /\ hs[h].printer = "Closed"
       /\ CountOp(hs[h].ops, "open") = CountOp(hs[h].ops, "close")
  /\ (\A h \in H : ~InWith(h)) => sessions = 0

C2_Witness ==
  \E h \in H : /\ hs[h].pc = "error_handler"
               /\ hs[h].error = "Unhandled"
               /\ CountOp(hs[h].ops, "out") >= 1
               /\ Last(hs[h].ops).op = "close"

\* the event that opened the session the event at j belongs to
SessionStart(ops, j) ==
  CHOOSE a \in 1..j :
    /\ ops[a].op = "open"
    /\ \A b \in (a + 1)..j : ops[b].op # "open"

\* C3 as stated: a session that went online is taken offline right before
\* its connection is closed, on every way out.
C3_OfflineBeforeClose ==
  \A h \in H : \A j \in 1..Len(hs[h].ops) :
    LET ops == hs[h].ops
    IN  (/\ ops[j].op = "close"
         /\ \E m \in SessionStart(ops, j)..j : ops[m].op = "online")
        => ops[j - 1].op = "offline"

\* C4 (state part): a handler that failed with NoPrinterFound holds no
\* connection, and the print call that failed made no device call: the
\* sessions it opened are those of the print calls before it.
C4_NothingOpened ==
  \A h \in H : hs[h].error = "NoPrinterFound" =>
    /\ hs[h].pc \in {"error_handler", "done"}
    /\ hs[h].printer = "Closed"
    /\ sessions = 0
    /\ CountOp(hs[h].ops, "open") = hs[h].k - 1
    /\ hs[h].ops # <<>> => Last(hs[h].ops).op = "close"

\* C4 (step part): the presence check failing raises NoPrinterFound and
\* touches neither the device nor the connection count.
C4_CheckFails ==
  \A h \in H :
    (hs[h].pc = "rp_check" /\ ~device_found /\ hs'[h] # hs[h]) =>
      /\ hs'[h] = [hs[h] EXCEPT !.error = "NoPrinterFound", !.pc = "error_handler"]
      /\ sessions' = sessions

\* C4: if the device presence check fails, withPrinter fails with
\* NoPrinterFound and opens no session: no connection, no online(), status()
\* or offline(), and the job body does not run.
C4_NoPrinterFound == []C4_NothingOpened /\ [][C4_CheckFails]_vars

C4_Witness ==
  \E h \in H : /\ hs[h].error = "NoPrinterFound"
               /\ hs[h].pc = "done"
               /\ hs[h].k = 2

\* C5 as stated: one request opens one printer session for all its output.
C5_SingleSession == \A h \in H : CountOp(hs[h].ops, "open") <= 1

\* sessions open after the first j events
OpenAfter(ops, j) ==
  CountOp(SubSeq(ops, 1, j), "open") - CountOp(SubSeq(ops, 1, j), "close")

PrintCalls(update) ==
  IF update.kind = "image" /\ update.caption # <<>> THEN 4 ELSE 3

\* C5 amended: every output call of a request runs inside an open session,
\* but each print step (image, body or caption, signature, feed) opens and
\* closes a session of its own, one after the other: a request that runs to
\* its end opens and closes three sessions, four for a photo with a caption.
C5_OneSessionPerPrintCall ==
  \A h \in H : hs[h].update.kind \in PrintKinds =>
    LET ops == hs[h].ops
    IN  /\ \A j \in 1..Len(ops) :
             /\ OpenAfter(ops, j) \in {0, 1}
             /\ ops[j].op \in OutputOps => OpenAfter(ops, j) = 1
        /\ Completed(h) =>
             /\ CountOp(ops, "open") = PrintCalls(hs[h].update)
             /\ CountOp(ops, "close") = PrintCalls(hs[h].update)

C5_Witness ==
  \E h \in H : /\ hs[h].update.kind = "image"
               /\ hs[h].update.caption # <<>>
               /\ Completed(h)
               /\ CountOp(hs[h].ops, "open") = 4

IsOutput(e) == e.op \in OutputOps

Outputs(ops) == SelectSeq(ops, IsOutput)

IsPrefix(a, b) == Len(a) <= Len(b) /\ a = SubSeq(b, 1, Len(a))

BodyLines(text) ==
  LET lines == split_text(text, max_column)
  IN  [j \in 1..Len(lines) |-> [Ev("out") EXCEPT !.text = lines[j], !.bold = TRUE]]

ExpectedOutput(update) ==
  LET signature == [Ev("out") EXCEPT !.author = first_name(update.user),
                                     !.day = update.date \div SECONDS_PER_DAY]
      feed == [Ev("feed") EXCEPT !.n = 2]
  IN  IF update.kind = "text"
      THEN BodyLines(update.text) \o <<signature, feed>>
      ELSE <<Ev("image")>>
           \o (IF update.caption # <<>> THEN BodyLines(update.caption) ELSE <<>>)
           \o <<signature, feed>>

\* C6: the output calls of a request come in this order: the wrapped body
\* lines (or the image, then the caption lines if there is a caption), one
\* signature line, one feed of 2 lines, and nothing after the feed.  What has
\* been emitted is always a prefix of that, and all of it once the body ran
\* to its end.
C6_OutputOrder ==
  \A h \in H : hs[h].update.kind \in PrintKinds =>
    /\ IsPrefix(Outputs(hs[h].ops), ExpectedOutput(hs[h].update))
    /\ Completed(h) => Outputs(hs[h].ops) = ExpectedOutput(hs[h].update)

C6_Witness ==
  \E h \in H : /\ hs[h].update.kind = "image"
               /\ hs[h].update.caption # <<>>
               /\ Completed(h)
               /\ Len(Outputs(hs[h].ops)) >= 4
               /\ Last(hs[h].ops).op = "close"

\* C7 as stated: a text or image request that is stale (here: already older
\* than 24 h at startup) gets no reply, causes no admin notification, raises
\* no error and prints nothing, whoever sent it.
C7_StaleDroppedSilently ==
  \A h \in H :
    (hs[h].update.kind \in PrintKinds /\ is_old(hs[h].update.date, Now0)) =>
      /\ hs[h].replies = <<>>
      /\ hs[h].admin_msgs = <<>>
      /\ hs[h].error = "none"
      /\ hs[h].ops = <<>>

\* C8 as stated: an admin command sent by the admin identity is always
\* allowed: past auth, its first reply is the "received" acknowledgement.
C8_AdminAlwaysAllowed ==
  \A h \in H :
    (/\ hs[h].update.kind \in AdminKinds
     /\ hs[h].update.user = ADMIN_TELEGRAM_USER_ID
     /\ hs[h].pc \notin {"idle", "auth"})
    => (hs[h].replies # <<>> /\ hs[h].replies[1] = "Recibido")

\* some argument is the admin identity, however it is written
DenotesAdmin(args) ==
  \E j \in 1..Len(args) :
    IsInt(args[j]) /\ int(args[j]) = ADMIN_TELEGRAM_USER_ID

\* C9 as stated: a /remove naming the admin identity is rejected with a
\* message and leaves the registry, in memory and on disk, as it was.
C9_RemoveAdminRejected ==
  [][\A h \in H :
       (/\ hs[h].pc = "cmd"
        /\ hs[h].update.kind = "remove"
        /\ DenotesAdmin(hs[h].update.args)
        /\ hs'[h].pc # "cmd")
       => /\ ALLOWED_TELEGRAM_USER_IDS' = ALLOWED_TELEGRAM_USER_IDS
          /\ CONFIG_FILE' = CONFIG_FILE
          /\ Last(hs'[h].replies) = "Not able to deauthorize admin user"]_vars

\* the outcome DenyUnregistered of handler slot h
DeniedUnregistered(h) ==
  /\ hs[h].pc = "done"
  /\ hs[h].replies = <<"todavia no tienes permiso">>
  /\ hs[h].admin_msgs =
       << [kind |-> "unauthorized", id |-> hs[h].update.user,
           name |-> first_name(hs[h].update.user)] >>
  /\ hs[h].ops = <<>>
  /\ hs[h].error = "none"

Unregistered(h) ==
  /\ hs[h].pc \notin {"idle", "auth"}
  /\ hs[h].update.user \notin ALLOWED_TELEGRAM_USER_IDS
  /\ hs[h].update.user # ADMIN_TELEGRAM_USER_ID

\* C10 as stated: whatever requiresAdmin is, a request of an identity that is
\* neither registered nor the admin ends in DenyUnregistered.
C10_DeniedWhateverRequiresAdmin ==
  \A h \in H :
    (hs[h].update.kind \in AuthKinds /\ Unregistered(h)) => DeniedUnregistered(h)

\* C10 amended: a text or image request (requiresAdmin false) of an identity
\* that is neither registered nor the admin ends in DenyUnregistered: the
\* "not yet authorized" reply, one notification to the admin with the
\* requester's name and identity, and the wrapped handler is not run.  (With
\* requiresAdmin true such an identity gets the admin denial instead.)
C10_PrintRequestDenied ==
  \A h \in H :
    (hs[h].update.kind \in PrintKinds /\ Unregistered(h)) => DeniedUnregistered(h)

C10_Witness ==
  \E h \in H : /\ hs[h].update.kind = "image"
               /\ hs[h].update.user = 3
               /\ DeniedUnregistered(h)

\* the outcome DenyAdmin of handler slot h
DeniedAdmin(h) ==
  /\ hs[h].pc = "done"
  /\ hs[h].replies = <<"no tienes permisos de administracion">>
  /\ hs[h].admin_msgs = <<>>
  /\ hs[h].ops = <<>>
  /\ hs[h].error = "none"

NotTheAdmin(h) ==
  /\ hs[h].update.kind \in AdminKinds
  /\ hs[h].update.user # ADMIN_TELEGRAM_USER_ID

\* C11 (state part): past auth, an admin command of an identity that is not
\* the admin has ended with the one denial reply and nothing else.
C11_Denied ==
  \A h \in H :
    (NotTheAdmin(h) /\ hs[h].pc \notin {"idle", "auth"}) => DeniedAdmin(h)

\* C11 (step part): while such a command is handled the registry stays as
\* it is, in memory and on disk.
C11_RegistryKept ==
  \A h \in H :
    NotTheAdmin(h) =>
      /\ ALLOWED_TELEGRAM_USER_IDS' = ALLOWED_TELEGRAM_USER_IDS
      /\ CONFIG_FILE' = CONFIG_FILE

\* C11: with requiresAdmin true and a requester that is not the admin the
\* outcome is DenyAdmin, registered or not: one denial reply, no admin
\* notification, /exec, /add or /remove is not run, the registry is unchanged.
C11_DenyAdmin == []C11_Denied /\ [][C11_RegistryKept]_vars

C11_Witness ==
  \E h \in H : /\ hs[h].update.kind = "remove"
               /\ hs[h].update.user = 2
               /\ 2 \in ALLOWED_TELEGRAM_USER_IDS
               /\ hs[h].update.args = << <<"2">> >>
               /\ DeniedAdmin(h)

\* the handler was let in by auth
Allowed(h) ==
  /\ hs[h].update.kind \in AuthKinds
  /\ hs[h].pc \notin {"idle", "auth"}
  /\ hs[h].replies # <<>>
  /\ hs[h].replies[1] = "Recibido"

HasReply(h, text) == \E j \in 1..Len(hs[h].replies) : hs[h].replies[j] = text

\* C12: on Allow the "received" acknowledgement precedes everything the
\* wrapped operation does, the "done" acknowledgement is the last reply and is
\* sent once the operation returned without error; if the operation raised,
\* "done" is never sent and the error reaches the error handler.
C12_Acknowledgements ==
  \A h \in H : hs[h].update.kind \in AuthKinds =>
    /\ (hs[h].pc \notin {"idle", "auth", "done"} \/ hs[h].ops # <<>>
        \/ hs[h].error # "none") => Allowed(h)
    /\ HasReply(h, "OK") =>
         /\ hs[h].pc = "done"
         /\ hs[h].error = "none"
         /\ Allowed(h)
         /\ Last(hs[h].replies) = "OK"
         /\ \A j \in 1..(Len(hs[h].replies) - 1) : hs[h].replies[j] # "OK"
    /\ (Allowed(h) /\ hs[h].pc = "done" /\ hs[h].error = "none")
         => Last(hs[h].replies) = "OK"
    /\ hs[h].error # "none" =>
         /\ hs[h].pc \in {"rp_unwind", "error_handler", "done"}
         /\ hs[h].pc = "done" => hs[h].admin_msgs = <<Exception(hs[h].update.user)>>

C12_Witness ==
  \E h \in H : /\ hs[h].update.kind = "add"
               /\ hs[h].error = "Unhandled"
               /\ hs[h].pc = "done"
               /\ Allowed(h)
               /\ ~HasReply(h, "OK")

\* C13 as stated: an /add or /remove that fails leaves the registry as it
\* was, in memory and on disk, and the two equal.
C13_AllOrNothing ==
  [][\A h \in H :
       (/\ hs[h].pc = "cmd"
        /\ hs[h].update.kind \in {"add", "remove"}
        /\ hs'[h].error # "none")
       => /\ ALLOWED_TELEGRAM_USER_IDS' = ALLOWED_TELEGRAM_USER_IDS
          /\ CONFIG_FILE' = CONFIG_FILE
          /\ ALLOWED_TELEGRAM_USER_IDS' = CONFIG_FILE']_vars

\* C14 as stated: a NoPaperLeft or NoPrinterFound failure ends with a short
\* message of its own to the user and nothing to the admin; any other failure
\* ends with the generic apology and one report to the admin.
C14_ReportByKind ==
  \A h \in H : (hs[h].pc = "done" /\ hs[h].error # "none") =>
    IF hs[h].error \in {"NoPaperLeft", "NoPrinterFound"}
    THEN /\ Last(hs[h].replies) # "Algo no ha ido bien"
         /\ hs[h].admin_msgs = <<>>
    ELSE /\ Last(hs[h].replies) = "Algo no ha ido bien"
         /\ hs[h].admin_msgs = <<Exception(hs[h].update.user)>>

\* C14 amended: only the reply to the user follows the error kind, and only
\* for NoPaperLeft: it is "No queda papel" for NoPaperLeft and the generic
\* apology for every other failure, NoPrinterFound included.  Every failure,
\* NoPaperLeft and NoPrinterFound included, is also reported once to the
\* admin.  Every failure produces exactly one error message to the user.
C14_ReplyByKindAdminAlways ==
  \A h \in H :
    /\ hs[h].pc = "error_handler" =>
         (hs[h].error # "none" /\ hs[h].replies = <<"Recibido">>
          /\ hs[h].admin_msgs = <<>>)
    /\ (hs[h].pc = "done" /\ hs[h].error # "none") =>
         /\ hs[h].replies =
              <<"Recibido", IF hs[h].error = "NoPaperLeft" THEN "No queda papel"
                            ELSE "Algo no ha ido bien">>
         /\ hs[h].admin_msgs =
              << [kind |-> "exception", id |-> hs[h].update.user,
                  name |-> first_name(hs[h].update.user)] >>

C14_Witness ==
  \E h \in H : /\ hs[h].pc = "done"
               /\ hs[h].error = "NoPaperLeft"
               /\ Last(hs[h].replies) = "No queda papel"
               /\ Len(hs[h].admin_msgs) = 1

\* C18: a job body runs only in a session that went online and whose status
\* query reported paper; a session whose status query reported no paper ends
\* there with NoPaperLeft: no line, image or feed is emitted in it.
C18_JobAfterPaperCheck ==
  \A h \in H : \A j \in 1..Len(hs[h].ops) :
    LET ops == hs[h].ops
        a == SessionStart(ops, j)
    IN  /\ ops[j].op \in OutputOps =>
             /\ j >= a + 3
             /\ ops[a + 1].op = "online"
             /\ ops[a + 2].op = "status"
             /\ ops[a + 2].n = 1
        /\ (ops[j].op = "status" /\ ops[j].n = 0) =>
             /\ hs[h].error = "NoPaperLeft"
             /\ hs[h].pc \in {"rp_unwind", "error_handler", "done"}
             /\ j = Len(ops) \/ (j + 1 = Len(ops) /\ ops[j + 1].op = "close")

C18_Witness ==
  \E h \in H : /\ hs[h].error = "NoPaperLeft"
               /\ hs[h].pc = "done"
               /\ hs[h].k = 2
               /\ CountOp(hs[h].ops, "out") >= 1

\* C19 (state part): a handler that touched the printer handles a text or
\* image request that auth let in, of a registered identity, not stale.
C19_DeviceOnlyWhenAllowedAndFresh ==
  \A h \in H :
    (hs[h].ops # <<>> \/ hs[h].printer # "Closed"
     \/ hs[h].pc \in {"rp_check", "rp_open"} \/ InWith(h)) =>
      /\ hs[h].update.kind \in PrintKinds
      /\ hs[h].update.user \in ALLOWED_TELEGRAM_USER_IDS
      /\ hs[h].replies # <<>> /\ hs[h].replies[1] = "Recibido"
      /\ ~is_old(hs[h].update.date, Now0)
      /\ hs[h].k >= 1

\* C19 (step part): the freshness test finding the request stale ends the
\* handler's work: it goes to the acknowledgement with no device call made.
C19_StaleSkipsDevice ==
  \A h \in H :
    (/\ hs[h].pc = "fresh"
     /\ hs[h].update.date < now - HOURS_24
     /\ hs'[h] # hs[h])
    => (hs'[h].pc = "ack" /\ hs'[h].ops = <<>> /\ hs'[h].k = 0 /\ sessions' = sessions)

\* C19: no printer operation occurs while handling a request that access
\* control denied or that is stale; the device is used only for fresh text or
\* image requests of registered identities.
C19_NoDeviceForDeniedOrStale ==
  /\ []C19_DeviceOnlyWhenAllowedAndFresh
  /\ [](\A h \in H : (hs[h].pc \in {"ack", "done"} /\ hs[h].k = 0) => hs[h].ops = <<>>)
  /\ [][C19_StaleSkipsDevice]_vars

C19_Witness ==
  \E h \in H : /\ hs[h].update.kind = "text"
               /\ hs[h].update.user \in ALLOWED_TELEGRAM_USER_IDS
               /\ hs[h].update.date = Now0 - HOURS_24
               /\ now = Now0 + 1
               /\ hs[h].pc = "done"
               /\ hs[h].replies = <<"Recibido", "OK">>
               /\ hs[h].ops = <<>>

\* C20 as stated: the completion acknowledgement of a text or image request
\* is sent only when the whole job of that request was emitted.
C20_DoneOnlyAfterWholeJob ==
  \A h \in H :
    (hs[h].update.kind \in PrintKinds /\ HasReply(h, "OK")) =>
      Outputs(hs[h].ops) = ExpectedOutput(hs[h].update)

Returned(fn) == call.fn = fn /\ call.pc = "returned"

\* C15: every line split_text returns has at least one and at most maxWidth
\* characters, for every text and every maxWidth >= 1; a text of whitespace
\* only, or the empty text, yields no line.
C15_LinesWithinWidth ==
  Returned("split_text") =>
    /\ call.max_line_length >= 1
    /\ \A j \in 1..Len(call.lines) :
         /\ call.lines[j] # <<>>
         /\ Len(call.lines[j]) <= call.max_line_length
    /\ (\A j \in 1..Len(call.text) : IsSpace(call.text[j])) => call.lines = <<>>

C15_Witness ==
  /\ Returned("split_text")
  /\ \E j \in 1..Len(split(call.text)) :
       Len(split(call.text)[j]) > call.max_line_length
  /\ Len(call.lines) >= 2
  /\ \E j \in 1..Len(call.lines) : Len(call.lines[j]) = call.max_line_length

\* C16 as stated: beautify rotates the bitmap exactly when the declared width
\* exceeds the declared height, and the image it returns is targetWidth wide
\* and floor(rotatedHeight * targetWidth / rotatedWidth) high.
C16_ExactSize ==
  Returned("beautify") =>
    LET rotated == IF call.width > call.height
                   THEN <<call.size[2], call.size[1]>> ELSE call.size
    IN  call.out = <<call.max_width, (rotated[2] * call.max_width) \div rotated[1]>>

RECURSIVE GreedyPack(_, _, _, _)
\* the greedy packing as specified: done are the finished lines, cur the
\* current line; a word goes on an empty current line unconditionally
GreedyPack(done, cur, words, maxWidth) ==
  IF words = <<>> THEN (IF cur = <<>> THEN done ELSE Append(done, cur))
  ELSE LET w == Head(words)
           word == [j \in 1..Min(Len(w), maxWidth) |-> w[j]]
       IN  IF cur = <<>> THEN GreedyPack(done, word, Tail(words), maxWidth)
           ELSE IF Len(cur) + 1 + Len(word) <= maxWidth
           THEN GreedyPack(done, cur \o <<" ">> \o word, Tail(words), maxWidth)
           ELSE GreedyPack(Append(done, cur), word, Tail(words), maxWidth)

RECURSIVE WordsOf(_)
\* the words on the lines, line after line
WordsOf(lines) ==
  IF lines = <<>> THEN <<>> ELSE split(Head(lines)) \o WordsOf(Tail(lines))

\* C17: split_text returns exactly the lines of the specified greedy packing
\* of the words of the text, and these lines carry the words of the text,
\* each cut to maxWidth characters, in their order, none dropped or repeated.
C17_GreedyPacking ==
  Returned("split_text") =>
    LET words == split(call.text)
        n == call.max_line_length
    IN  /\ call.lines = GreedyPack(<<>>, <<>>, words, n)
        /\ WordsOf(call.lines) =
             [j \in 1..Len(words) |-> SubSeq(words[j], 1, Min(Len(words[j]), n))]

C17_Witness ==
  /\ Returned("split_text")
  /\ Len(split(call.text)) = 3
  /\ Len(call.lines) = 2
  /\ Len(split(call.lines[1])) = 2
  /\ Len(call.lines[1]) = call.max_line_length

====
